---- MODULE Spec2Model ----
(***************************************************************************)
(* Coordination core of the ImmunoTrack collector service: the leader      *)
(* lease kept in the alerts table, the per-process election loop, and the  *)
(* send-once dispatch of critical alert notifications.                     *)
(*                                                                         *)
(* Time is an integer number of seconds.  Every timestamp the code stores  *)
(* or compares is datetime.now(UTC-3).isoformat(); for one fixed offset    *)
(* the lexicographic order DynamoDB applies to these strings is the order  *)
(* of the instants, so timestamps are compared as integers.                *)
(***************************************************************************)
EXTENDS Integers, FiniteSets, Sequences, TLC

\* ---------------------------------------------------------------- bounds
NumProcs == 2
MaxTime == 30
MaxLeaseTime == 60
Quantum == 10
MaxAlerts == 2
MaxMs == 1
MaxTtl == 12
MaxIngest == 2
MaxMsgs == 2
MaxCallbacks == 3
MaxChamadas == 4

\* ------------------------------------------------------ program constants
LEASE_TTL_SECONDS == 20
MinSleepSeconds == 5
\* The safe range of receber_temperatura, 2.0 to 8.0 degrees, in tenths.
TEMP_MIN == 20
TEMP_MAX == 80
\* SensorTemperatura.max_tentativas.
max_tentativas == 3

Procs == 1..NumProcs
Reqs == 1..MaxAlerts

VARIABLES
    now,              \* wall clock shared by the collectors and the store
    alertas_table,    \* table immunotrack-alertas: id -> item
    is_lider_atual,   \* per process: local leadership flag
    pc,               \* per process: position of _loop_eleicao_lider
    agora,            \* per process: clock value read by the call in flight
    dormir,           \* per process: seconds left of the current asyncio.sleep
    reqs,             \* calls of criar_alerta_emergencia, by slot
    db_service,       \* per process: whether db_service holds a DynamoDBService
    ttl,              \* LEASE_TTL_SECONDS as configured for this run
    replication_enabled,  \* REPLICATION_LOCAL_ENABLED as configured
    replica_existe,   \* whether the store holds the two replica tables
    tabelas,          \* per process: whether _get_tables has set the handles
    alertas_emergencia,   \* per process: length of the in-memory alert list
    temperaturas_table,   \* table immunotrack-temperaturas: id -> temperature
    temperaturas_replica, \* table immunotrack-temperaturas-replica
    alertas_replica,  \* table immunotrack-alertas-replica: id -> item
    n_ingest,         \* history: number of receber_temperatura calls made
    ing,              \* history: the latest receber_temperatura call
    res,              \* history: the latest marcar_alerta_resolvido call
    painel,           \* history: the latest replication status computed
    term,             \* history: per leader, the expiresAt it last wrote
    beaten,           \* history: acquire calls in flight that a rival's win overtook
    ult,              \* history: the latest lease call the loops completed
    sqs,              \* the SQS queues, SQSClient's urls and the handler's batch
    sensor_service    \* SensorTemperatura: its counter and position

\* What on_startup and the environment fix for the whole run.
config == <<db_service, ttl, replication_enabled, replica_existe>>

\* The SQS message handler and the sensor service, which share no state
\* with the collectors' handlers.
servicos == <<sqs, sensor_service>>

\* The readings, the replicas and the histories of their handlers.
leituras == <<temperaturas_table, temperaturas_replica, n_ingest, ing>>

vars == <<now, alertas_table, is_lider_atual, pc, agora, dormir, reqs,
          config, servicos, tabelas, alertas_emergencia, leituras, alertas_replica,
          res, painel, term, beaten, ult>>

\* ------------------------------------------------------------ the table
\* An item of the alerts table.  Attributes an item does not carry hold
\* "" (strings), -1 (timestamps) or FALSE (notified: absent and false are
\* the same to every condition the code writes).
BlankItem ==
    [tipo_dado |-> "", ownerId |-> "", data_criacao |-> -1, expiresAt |-> -1,
     tipo_alerta |-> "", severidade |-> "", notified |-> FALSE,
     notified_at |-> -1, resolvido |-> FALSE, data_resolvido |-> -1]

LeaseKey == "leader#collector"

Has(t, k) == k \in DOMAIN t

Put(t, k, item) == [x \in DOMAIN t \cup {k} |-> IF x = k THEN item ELSE t[x]]

owner_id(p) == "collector-" \o ToString(p)

Max(a, b) == IF a >= b THEN a ELSE b

\* max(5, LEASE_TTL_SECONDS // 2), the sleep that ends a loop iteration.
SleepSeconds == Max(MinSleepSeconds, ttl \div 2)

\* ------------------------------------------------------------ the lease
\* Two variants of the acquire condition that the properties of the lease
\* must tell apart from the one in the code: taking the lease over at the
\* very instant it expires, and never taking an existing record over.
AcquireConditionEager(t, at) ==
    \/ ~Has(t, LeaseKey)
    \/ t[LeaseKey].expiresAt # -1 /\ t[LeaseKey].expiresAt <= at

AcquireConditionAbsentOnly(t, at) == ~Has(t, LeaseKey)

\* ConditionExpression 'attribute_not_exists(id) OR expiresAt < :now'.
\* A comparison with an attribute the item lacks is false.
AcquireCondition(t, at) ==
    \/ ~Has(t, LeaseKey)
    \/ t[LeaseKey].expiresAt # -1 /\ t[LeaseKey].expiresAt < at

\* adquirir_lease_lider: at is the clock value read before the request,
\* ok is whether the store answered the request at all.
adquirir_lease_lider(t, owner, ttl_seconds, at, ok) ==
    IF ok /\ AcquireCondition(t, at)
    THEN [ret |-> TRUE,
          table |-> Put(t, LeaseKey,
                        [BlankItem EXCEPT !.tipo_dado = "leader",
                                          !.ownerId = owner,
                                          !.data_criacao = at,
                                          !.expiresAt = at + ttl_seconds])]
    ELSE [ret |-> FALSE, table |-> t]

\* A variant of the renew condition that forgets the owner.
RenewConditionAnyOwner(t, owner) == Has(t, LeaseKey)

\* ConditionExpression 'ownerId = :owner' of the renewal.
RenewCondition(t, owner) ==
    Has(t, LeaseKey) /\ t[LeaseKey].ownerId = owner

\* A variant of the renewal that writes the whole record anew, as the
\* acquisition does.
renovar_lease_lider_put(t, owner, ttl_seconds, at, ok) ==
    IF ok /\ RenewCondition(t, owner)
    THEN [ret |-> TRUE,
          table |-> Put(t, LeaseKey,
                        [BlankItem EXCEPT !.tipo_dado = "leader",
                                          !.ownerId = owner,
                                          !.data_criacao = at,
                                          !.expiresAt = at + ttl_seconds])]
    ELSE [ret |-> FALSE, table |-> t]

\* renovar_lease_lider: update_item SET expiresAt under the owner condition.
renovar_lease_lider(t, owner, ttl_seconds, at, ok) ==
    IF ok /\ RenewCondition(t, owner)
    THEN [ret |-> TRUE,
          table |-> [t EXCEPT ![LeaseKey].expiresAt = at + ttl_seconds]]
    ELSE [ret |-> FALSE, table |-> t]

\* ----------------------------------------------------------- the alerts
Tipos == {"TEMPERATURA_CRITICA", "SENSOR_OFFLINE", "FALHA_ENERGIA"}

\* Variants of the severity mapping: every type critical, and no type
\* mapped to ALTO.
SeveridadeTudoCritico(tipo) == "CRITICO"

SeveridadeSemAlto(tipo) ==
    IF tipo = "TEMPERATURA_CRITICA" THEN "CRITICO" ELSE "MEDIO"

\* criar_alerta_emergencia, the severity of an alert type.
Severidade(tipo) ==
    IF tipo = "TEMPERATURA_CRITICA" THEN "CRITICO"
    ELSE IF tipo = "SENSOR_OFFLINE" THEN "ALTO"
    ELSE "MEDIO"

\* _gerar_id_alerta: the type and the clock cut to milliseconds; at is the
\* seconds and ms the milliseconds the clock shows.
gerar_id_alerta(tipo, at, ms) ==
    tipo \o "#" \o ToString(at) \o "_" \o ToString(ms)

\* The id criar_alerta_emergencia gives the alert before it is persisted:
\* the length of the process's in-memory list plus one, and the clock.
id_alerta_local(n, at) == "ALERTA_" \o ToString(n + 1) \o "_" \o ToString(at)

\* salvar_alerta: an unconditional put_item under the generated id.  id is
\* "" when nothing was persisted (no store handle, or the put raised).
salvar_alerta(t, tipo, severidade, at, ms, ok) ==
    IF ok
    THEN [id |-> gerar_id_alerta(tipo, at, ms),
          table |-> Put(t, gerar_id_alerta(tipo, at, ms),
                        [BlankItem EXCEPT !.tipo_dado = "alerta",
                                          !.tipo_alerta = tipo,
                                          !.severidade = severidade,
                                          !.data_criacao = at])]
    ELSE [id |-> "", table |-> t]

\* A variant of the mark condition that always holds.
MarkConditionAlways(t, id) == TRUE

\* ConditionExpression 'attribute_not_exists(notified) OR notified <> :true';
\* on a key with no item attribute_not_exists holds.
MarkCondition(t, id) == ~Has(t, id) \/ ~t[id].notified

\* marcar_alerta_notificado_uma_vez: update_item SET notified, notified_at
\* under the condition; update_item creates the item when the key has none.
marcar_alerta_notificado_uma_vez(t, id, at, ok) ==
    IF ok /\ MarkCondition(t, id)
    THEN [ret |-> TRUE,
          table |-> Put(t, id,
                        [(IF Has(t, id) THEN t[id] ELSE BlankItem)
                            EXCEPT !.notified = TRUE, !.notified_at = at])]
    ELSE [ret |-> FALSE, table |-> t]

\* ------------------------------------------------------------- histories
\* The acquire calls in flight, other than p's, for which the stored record
\* is absent or expired: the calls racing with p's against that record.
Rivals(t, p) ==
    {q \in Procs \ {p} :
        /\ pc[q] = "acquire"
        /\ (~Has(t, LeaseKey) \/ t[LeaseKey].expiresAt < agora[q])}

NoCall == [op |-> "none", p |-> 0, ret |-> FALSE, erro |-> FALSE, dono |-> ""]

\* The owner the lease record names, "" when there is no record.
Dono(t) == IF Has(t, LeaseKey) THEN t[LeaseKey].ownerId ELSE ""

\* The latest receber_temperatura call: the process and its flag, the
\* temperature, the id generated for the reading, whether the store
\* answered the put of the reading (ok) and of the alert (ok2), the slot of
\* the alert raised and the alerta_criado of the response.
NoIngest == [p |-> 0, lider |-> FALSE, temperatura |-> 0, id |-> "",
             ok |-> FALSE, ok2 |-> FALSE, slot |-> 0, alerta_criado |-> FALSE]

\* The latest replication status painel_visual computed: whether the
\* primary counts and both replica counts were read, and the status.
NoPainel == [status |-> "", primario |-> FALSE, replica |-> FALSE]

NoResolve == [p |-> 0, id |-> "", ret |-> FALSE, existia |-> FALSE,
              erro |-> FALSE]

\* ------------------------------------------------------------------ Init
\* The two work queues of SQSClient and the messages in them.
Filas == {"high", "normal"}

Msgs == 1..MaxMsgs

NoMessage == [m |-> 0, success |-> "", origem |-> "", dlq_ok |-> FALSE,
              delete_ok |-> FALSE]

\* SQSClient.__init__ and SQSMessageHandler.start_processing(queue_url):
\* which of the three urls the environment sets, the queue_url argument
\* ("" for None), the queues empty and no batch received.
SQSClient(high, normal, dlq, queue_url) ==
    [high_priority_queue_url |-> high, normal_queue_url |-> normal,
     dlq_url |-> dlq, queue_url |-> queue_url,
     fila |-> [q \in Filas |-> [m \in Msgs |-> "ausente"]],
     dlq |-> [m \in Msgs |-> 0],
     messages |-> {}, origem |-> "", n |-> 0, ult |-> NoMessage]

\* No url set and no handler started.
SemFilas == SQSClient(FALSE, FALSE, FALSE, "")

\* SensorTemperatura.__init__: the counter at 0, iniciar between two calls
\* of executar_com_tentativas.
SensorTemperatura(use_mqtt) ==
    [use_mqtt |-> use_mqtt, pc |-> "idle", contador_tentativas |-> 0,
     tentativas |-> 0, chamadas |-> 0, sucesso |-> FALSE]

FreeReq == [st |-> "free", proc |-> 0, tipo |-> "", id_alerta |-> "",
            marked |-> FALSE, sent |-> FALSE]

\* The collectors after on_startup: db_service holds the store handle for
\* good and the election loop has been started.
Coletores ==
    /\ now = 0
    /\ alertas_table = <<>>
    /\ is_lider_atual = [p \in Procs |-> FALSE]
    /\ pc = [p \in Procs |-> "sleep"]
    /\ agora = [p \in Procs |-> 0]
    /\ dormir = [p \in Procs |-> 0]
    /\ reqs = [r \in Reqs |-> FreeReq]
    /\ db_service = [p \in Procs |-> TRUE]
    /\ tabelas = [p \in Procs |-> FALSE]
    /\ alertas_emergencia = [p \in Procs |-> 0]
    /\ temperaturas_table = <<>>
    /\ temperaturas_replica = <<>>
    /\ alertas_replica = <<>>
    /\ n_ingest = 0
    /\ ing = NoIngest
    /\ res = NoResolve
    /\ painel = NoPainel
    /\ term = [p \in Procs |-> -1]
    /\ beaten = {}
    /\ ult = NoCall

Started ==
    /\ Coletores
    /\ sqs = SemFilas
    /\ sensor_service = SensorTemperatura(FALSE)

\* REPLICATION_LOCAL_ENABLED left at its default, no replica tables.
NoReplica == replication_enabled = FALSE /\ replica_existe = FALSE

\* LEADER_TTL_SECONDS left at its default.
Init == Started /\ ttl = LEASE_TTL_SECONDS /\ NoReplica

\* The default ttl with replication enabled or not, and the two replica
\* tables created in the store or not.
ReplInit ==
    /\ Started
    /\ ttl = LEASE_TTL_SECONDS
    /\ replication_enabled \in BOOLEAN
    /\ replica_existe \in BOOLEAN

\* The handler started on any configuration of the three urls, with or
\* without an explicit queue_url.
SqsInit ==
    /\ Coletores
    /\ ttl = LEASE_TTL_SECONDS
    /\ NoReplica
    /\ sqs \in {SQSClient(high, normal, dlq, queue_url) :
                  high \in BOOLEAN, normal \in BOOLEAN, dlq \in BOOLEAN,
                  queue_url \in {""} \cup Filas}
    /\ sensor_service = SensorTemperatura(FALSE)

\* A sensor started with MQTT in use or not.
SensorInit ==
    /\ Coletores
    /\ ttl = LEASE_TTL_SECONDS
    /\ NoReplica
    /\ sqs = SemFilas
    /\ sensor_service \in {SensorTemperatura(use_mqtt) : use_mqtt \in BOOLEAN}

\* LEADER_TTL_SECONDS set to any of the values up to MaxTtl.
TtlInit == Started /\ ttl \in 1..MaxTtl /\ NoReplica

\* --------------------------------------------------------------- actions
\* The clock advances by step seconds, up to the horizon.
Advance(step, horizon) ==
    /\ now + step <= horizon
    /\ now' = now + step
    /\ dormir' = [p \in Procs |-> Max(0, dormir[p] - step)]
    /\ UNCHANGED <<alertas_table, is_lider_atual, pc, agora, reqs,
                   config, servicos, tabelas, alertas_emergencia, leituras,
                   alertas_replica, res, painel, term, beaten, ult>>

\* With alerts being raised the clock is followed in strides that outlast
\* a lease; the election loops alone are followed quantum by quantum.
Tick == Advance(LEASE_TTL_SECONDS + Quantum, MaxTime)

LeaseTick == Advance(Quantum, MaxLeaseTime)

\* A variant of the loop's branch that tries to acquire whatever the flag.
RamoSempreAcquire(lider) == "acquire"

\* The branch of a loop iteration: 'if not is_lider_atual' acquires, else
\* renews.
Ramo(lider) == IF lider THEN "renew" ELSE "acquire"

\* _loop_eleicao_lider wakes from asyncio.sleep, reads the flag and enters
\* the lease call, which reads the clock before it calls the store.
LoopWake(p) ==
    /\ pc[p] = "sleep"
    /\ dormir[p] = 0
    /\ pc' = [pc EXCEPT ![p] = Ramo(is_lider_atual[p])]
    /\ agora' = [agora EXCEPT ![p] = now]
    /\ tabelas' = [tabelas EXCEPT ![p] = TRUE]
    /\ UNCHANGED <<now, alertas_table, is_lider_atual, dormir, reqs,
                   config, servicos, alertas_emergencia, leituras, alertas_replica,
                   res, painel, term, beaten, ult>>

\* The store answers the conditional put of adquirir_lease_lider and the
\* loop assigns the result to the flag, then sleeps.
LoopAcquire(p, ok) ==
    /\ pc[p] = "acquire"
    /\ LET r == adquirir_lease_lider(alertas_table, owner_id(p),
                                     ttl, agora[p], ok)
       IN /\ alertas_table' = r.table
          /\ is_lider_atual' = [is_lider_atual EXCEPT ![p] = r.ret]
          /\ term' = [term EXCEPT ![p] =
                        IF r.ret THEN agora[p] + ttl ELSE -1]
          /\ beaten' = IF r.ret
                       THEN (beaten \cup Rivals(alertas_table, p)) \ {p}
                       ELSE beaten \ {p}
          /\ ult' = [op |-> "acquire", p |-> p, ret |-> r.ret, erro |-> ~ok,
                     dono |-> Dono(alertas_table)]
    /\ pc' = [pc EXCEPT ![p] = "sleep"]
    /\ agora' = [agora EXCEPT ![p] = 0]
    /\ dormir' = [dormir EXCEPT ![p] = SleepSeconds]
    /\ UNCHANGED <<now, reqs, config, servicos, tabelas, alertas_emergencia, leituras,
                   alertas_replica, res, painel>>

\* The store answers the conditional update of renovar_lease_lider; a
\* renewal that fails clears the flag.
LoopRenew(p, ok) ==
    /\ pc[p] = "renew"
    /\ LET r == renovar_lease_lider(alertas_table, owner_id(p),
                                    ttl, agora[p], ok)
       IN /\ alertas_table' = r.table
          /\ is_lider_atual' = [is_lider_atual EXCEPT ![p] = r.ret]
          /\ term' = [term EXCEPT ![p] =
                        IF r.ret THEN agora[p] + ttl ELSE -1]
          /\ ult' = [op |-> "renew", p |-> p, ret |-> r.ret, erro |-> ~ok,
                     dono |-> Dono(alertas_table)]
    /\ pc' = [pc EXCEPT ![p] = "sleep"]
    /\ agora' = [agora EXCEPT ![p] = 0]
    /\ dormir' = [dormir EXCEPT ![p] = SleepSeconds]
    /\ UNCHANGED <<now, reqs, config, servicos, tabelas, alertas_emergencia, leituras,
                   alertas_replica, res, painel, beaten>>

\* A variant in which only the leader persists.
PodePersistirSoLider(p) == db_service[p] /\ is_lider_atual[p]

\* 'if db_service:' before salvar_temperatura and salvar_alerta.
PodePersistir(p) == db_service[p]

\* The process of collector p ends, by shutdown or crash: its election loop
\* and its flag are gone.  There is no shutdown handler, so nothing is
\* written to the store; a lease call in flight whose request has reached
\* the store is that call's step followed by this one.
Stop(p) ==
    /\ pc[p] # "stopped"
    /\ pc' = [pc EXCEPT ![p] = "stopped"]
    /\ is_lider_atual' = [is_lider_atual EXCEPT ![p] = FALSE]
    /\ agora' = [agora EXCEPT ![p] = 0]
    /\ dormir' = [dormir EXCEPT ![p] = 0]
    /\ beaten' = beaten \ {p}
    /\ UNCHANGED <<now, alertas_table, reqs, config, servicos, tabelas,
                   alertas_emergencia, leituras, alertas_replica, res,
                   painel, term, ult>>

\* Number of alerts process p holds in alertas_emergencia.
len_alertas_emergencia(p) == alertas_emergencia[p]

FirstFree == CHOOSE r \in Reqs :
    reqs[r].st = "free" /\ \A q \in Reqs : q < r => reqs[q].st # "free"

\* A variant of the write-through that stores the replica item under an
\* id of its own.
replicarOutroId(rt, k, item, ok) ==
    IF replication_enabled /\ replica_existe /\ ok
    THEN Put(rt, k \o "-replica", item) ELSE rt

\* The write-through of salvar_alerta and salvar_temperatura: after the
\* primary put, a put of the same item on the replica when replication is
\* enabled; a replica put that fails is only logged.
replicar(rt, k, item, ok) ==
    IF replication_enabled /\ replica_existe /\ ok THEN Put(rt, k, item) ELSE rt

\* criar_alerta_emergencia up to the persistence of the alert: severity,
\* local id, the in-memory list, salvar_alerta, and the persisted id when
\* there is one.
criar_alerta_emergencia(p, tipo, ms, ok, rok) ==
    /\ \E r \in Reqs : reqs[r].st = "free"
    /\ LET s == salvar_alerta(alertas_table, tipo, Severidade(tipo), now, ms,
                              ok /\ PodePersistir(p))
           id == IF s.id # "" THEN s.id
                 ELSE id_alerta_local(len_alertas_emergencia(p), now)
       IN /\ alertas_table' = s.table
          /\ alertas_replica' =
                IF s.id # ""
                THEN replicar(alertas_replica, s.id, s.table[s.id], rok)
                ELSE alertas_replica
          /\ reqs' = [reqs EXCEPT ![FirstFree] =
                        [st |-> IF Severidade(tipo) = "CRITICO"
                                THEN "dispatch" ELSE "done",
                         proc |-> p, tipo |-> tipo, id_alerta |-> id,
                         marked |-> FALSE, sent |-> FALSE]]
    /\ alertas_emergencia' = [alertas_emergencia EXCEPT ![p] = @ + 1]
    /\ tabelas' = [tabelas EXCEPT ![p] = TRUE]

\* simular_emergencia: an alert of any of the types is raised.
Raise(p, tipo, ms, ok, rok) ==
    /\ criar_alerta_emergencia(p, tipo, ms, ok, rok)
    /\ UNCHANGED <<now, is_lider_atual, pc, agora, dormir, config, servicos, leituras,
                   res, painel, term, beaten, ult>>

\* DynamoDBService.marcar_alerta_resolvido: get_item, then update_item SET
\* resolvido, data_resolvido.  pronto is whether the process's table
\* handle is set: the method does not call _get_tables, and without the
\* handle its first store call raises and the method returns False.  The
\* two store calls are taken as one step: no operation removes an item,
\* so an item the get_item found is there for the update_item.
marcar_alerta_resolvido(t, id, at, pronto, ok) ==
    IF pronto /\ ok /\ Has(t, id)
    THEN [ret |-> TRUE,
          table |-> [t EXCEPT ![id].resolvido = TRUE,
                              ![id].data_resolvido = at]]
    ELSE [ret |-> FALSE, table |-> t]

\* The ids a resolve request can carry: any stored id, the id of any alert
\* a handler returned, and an id nothing was stored under.
ResolveIds ==
    DOMAIN alertas_table
    \cup {reqs[r].id_alerta : r \in {q \in Reqs : reqs[q].st # "free"}}
    \cup {"desconhecido"}

\* POST /api/alertas/{alerta_id}/resolver on process p.  When the store
\* method returned False the handler lists the alerts for its log, and
\* obter_todos_alertas sets the table handle through _get_tables.
Resolve(p, id, ok) ==
    /\ id \in ResolveIds
    /\ LET m == marcar_alerta_resolvido(alertas_table, id, now, tabelas[p], ok)
       IN /\ alertas_table' = m.table
          /\ tabelas' = [tabelas EXCEPT ![p] = @ \/ ~m.ret]
          /\ res' = [p |-> p, id |-> id, ret |-> m.ret,
                     existia |-> Has(alertas_table, id), erro |-> ~ok]
    /\ UNCHANGED <<now, is_lider_atual, pc, agora, dormir, reqs, config, servicos,
                   alertas_emergencia, leituras, alertas_replica,
                   painel, term, beaten, ult>>

\* limpar_todos_alertas: the in-memory list of process p is emptied.
Clear(p) ==
    /\ alertas_emergencia[p] > 0
    /\ alertas_emergencia' = [alertas_emergencia EXCEPT ![p] = 0]
    /\ UNCHANGED <<now, alertas_table, is_lider_atual, pc, agora, dormir, reqs,
                   config, servicos, tabelas, leituras, alertas_replica, res, painel,
                   term, beaten, ult>>

\* ----------------------------------------------------------- the readings
Sensores == {"salaA-sensor01", "salaB-sensor02"}

\* Temperatures in tenths of a degree: just outside, on and inside the
\* limits of the safe range.
Temperaturas == {TEMP_MIN - 1, TEMP_MIN, 50, TEMP_MAX, TEMP_MAX + 1}

\* _gerar_id_temperatura: the sensor and the clock cut to milliseconds.
gerar_id_temperatura(sensor, at, ms) ==
    sensor \o "#" \o ToString(at) \o "_" \o ToString(ms)

\* salvar_temperatura: an unconditional put_item under the generated id.
\* id is "" when nothing was persisted.
salvar_temperatura(t, sensor, temperatura, at, ms, ok) ==
    IF ok
    THEN [id |-> gerar_id_temperatura(sensor, at, ms),
          table |-> Put(t, gerar_id_temperatura(sensor, at, ms),
                        [tipo_dado |-> "temperatura", id_sensor |-> sensor,
                         temperatura |-> temperatura, data_criacao |-> at])]
    ELSE [id |-> "", table |-> t]

\* A variant of the range test that takes the limits as out of range.
ForaDaFaixaInclusive(temperatura) ==
    temperatura <= TEMP_MIN \/ temperatura >= TEMP_MAX

\* 'if dados.temperatura < 2.0 or dados.temperatura > 8.0'.
ForaDaFaixa(temperatura) == temperatura < TEMP_MIN \/ temperatura > TEMP_MAX

\* POST /api/temperatura on process p: the reading is persisted, then an
\* out-of-range temperature raises a TEMPERATURA_CRITICA alert.  ms and ms2
\* are the milliseconds the clock shows to the two id generators; ok, rok,
\* ok2, rok2 are whether the store answers the puts of the reading, of its
\* replica, of the alert and of its replica.
Ingest(p, sensor, temperatura, ms, ms2, ok, rok, ok2, rok2) ==
    /\ n_ingest < MaxIngest
    /\ ms2 >= ms
    /\ LET s == salvar_temperatura(temperaturas_table, sensor, temperatura,
                                   now, ms, ok /\ PodePersistir(p))
       IN /\ temperaturas_table' = s.table
          /\ temperaturas_replica' =
                IF s.id # ""
                THEN replicar(temperaturas_replica, s.id, s.table[s.id], rok)
                ELSE temperaturas_replica
          /\ IF ForaDaFaixa(temperatura)
             THEN /\ criar_alerta_emergencia(p, "TEMPERATURA_CRITICA", ms2,
                                             ok2, rok2)
                  /\ ing' = [p |-> p, lider |-> is_lider_atual[p],
                             temperatura |-> temperatura,
                             id |-> gerar_id_temperatura(sensor, now, ms),
                             ok |-> ok, ok2 |-> ok2, slot |-> FirstFree,
                             alerta_criado |-> TRUE]
             ELSE /\ tabelas' = [tabelas EXCEPT ![p] = TRUE]
                  /\ ing' = [p |-> p, lider |-> is_lider_atual[p],
                             temperatura |-> temperatura,
                             id |-> gerar_id_temperatura(sensor, now, ms),
                             ok |-> ok, ok2 |-> FALSE, slot |-> 0,
                             alerta_criado |-> FALSE]
                  /\ UNCHANGED <<alertas_table, alertas_replica, reqs,
                                 alertas_emergencia>>
    /\ n_ingest' = n_ingest + 1
    /\ UNCHANGED <<now, is_lider_atual, pc, agora, dormir, config, servicos, res,
                   painel, term, beaten, ult>>

\* ------------------------------------------------------- the replication
\* contar_temperaturas: the count of the primary readings, 0 when the scan
\* fails.
contar_temperaturas(t, ok) == IF ok THEN Cardinality(DOMAIN t) ELSE 0

\* painel_visual, total_alertas: of the alerts obter_todos_alertas lists
\* (none when the scan fails), those that do not carry resolvido.  The
\* scan reads one page of at most 50 items; the tables of this model stay
\* below that.
total_alertas(t, ok) ==
    IF ok
    THEN Cardinality({k \in DOMAIN t :
                        t[k].tipo_dado = "alerta" /\ ~t[k].resolvido})
    ELSE 0

\* scan(Select='COUNT') of a replica table: None, here -1, when the table
\* does not exist or the scan fails.
contador_replica(rt, ok) ==
    IF replica_existe /\ ok THEN Cardinality(DOMAIN rt) ELSE -1

\* painel_visual, the replication status.
replica_status(ct, ca, ctr, car) ==
    IF ctr # -1 /\ car # -1
    THEN IF ctr = ct /\ car = ca THEN "em dia" ELSE "atraso"
    ELSE "não habilitada"

\* GET / on process p: the counts are read and the status computed;
\* nothing is written.  ok, rok, rok2 are whether the store answers the
\* scans of the primary tables and of each replica.
Painel(p, ok, rok, rok2) ==
    /\ painel' =
          [status |-> replica_status(
                          contar_temperaturas(temperaturas_table, ok),
                          total_alertas(alertas_table, ok),
                          contador_replica(temperaturas_replica, rok),
                          contador_replica(alertas_replica, rok2)),
           primario |-> ok,
           replica |-> replica_existe /\ rok /\ rok2]
    /\ painel' # painel
    /\ tabelas' = [tabelas EXCEPT ![p] = TRUE]
    /\ UNCHANGED <<now, alertas_table, is_lider_atual, pc, agora, dormir, reqs,
                   config, servicos, alertas_emergencia, leituras, alertas_replica, res,
                   term, beaten, ult>>

\* A variant of the listing whose scan has no FilterExpression.
obter_todos_alertas_sem_filtro(t) == DOMAIN t

\* GET /api/alertas: the stored items with tipo_dado 'alerta'.  The scan
\* reads one page of at most 100 items before filtering; the tables of
\* this model stay below that.
obter_todos_alertas(t) == {k \in DOMAIN t : t[k].tipo_dado = "alerta"}

\* Variants of the two tests of the critical branch: marking whatever the
\* flag, and sending whatever the mark returned.
PodeMarcarSempre(p) == db_service[p]

AposMarcarSempre(ret) == "send"

\* 'if db_service and is_lider_atual'.
PodeMarcar(p) == db_service[p] /\ is_lider_atual[p]

\* 'if db_service.marcar_alerta_notificado_uma_vez(...)': send on True,
\* only a log line on False.
AposMarcar(ret) == IF ret THEN "send" ELSE "done"

\* criar_alerta_emergencia, the critical branch: the flag is read and, for
\* a leader, the store answers the conditional mark; a leader without a
\* store handle sends without marking.
Dispatch(r, ok) ==
    /\ reqs[r].st = "dispatch"
    /\ IF PodeMarcar(reqs[r].proc)
       THEN LET m == marcar_alerta_notificado_uma_vez(
                         alertas_table, reqs[r].id_alerta, now, ok)
            IN /\ alertas_table' = m.table
               /\ reqs' = [reqs EXCEPT ![r].st = AposMarcar(m.ret),
                                       ![r].marked = m.ret]
       ELSE /\ reqs' = [reqs EXCEPT ![r].st =
                           IF is_lider_atual[reqs[r].proc]
                           THEN "send" ELSE "done"]
            /\ UNCHANGED alertas_table
    /\ UNCHANGED <<now, is_lider_atual, pc, agora, dormir, config, servicos, tabelas,
                   alertas_emergencia, leituras, alertas_replica, res,
                   painel, term, beaten, ult>>

\* notificar_alerta_aws: the channel is called unless the credentials are
\* not configured; its outcome is not fed back.
Send(r, configured) ==
    /\ reqs[r].st = "send"
    /\ reqs' = [reqs EXCEPT ![r].st = "done", ![r].sent = configured]
    /\ UNCHANGED <<now, alertas_table, is_lider_atual, pc, agora, dormir,
                   config, servicos, tabelas, alertas_emergencia, leituras,
                   alertas_replica, res, painel, term, beaten, ult>>

LeaseNext ==
    \/ LeaseTick
    \/ \E p \in Procs : LoopWake(p)
    \/ \E p \in Procs, ok \in BOOLEAN : LoopAcquire(p, ok)
    \/ \E p \in Procs, ok \in BOOLEAN : LoopRenew(p, ok)

Next ==
    \/ Tick
    \/ \E p \in Procs : LoopWake(p)
    \/ \E p \in Procs, ok \in BOOLEAN : LoopAcquire(p, ok)
    \/ \E p \in Procs, ok \in BOOLEAN : LoopRenew(p, ok)
    \/ \E p \in Procs, tipo \in Tipos, ms \in 0..MaxMs, ok, rok \in BOOLEAN :
            Raise(p, tipo, ms, ok, rok)
    \/ \E r \in Reqs, ok \in BOOLEAN : Dispatch(r, ok)
    \/ \E r \in Reqs, configured \in BOOLEAN : Send(r, configured)

\* The collectors with alerts being raised, up to MaxTime.
Spec == Init /\ [][Next]_vars

LedgerNext ==
    \/ Tick
    \/ \E p \in Procs, tipo \in Tipos, ms \in 0..MaxMs, ok \in BOOLEAN :
            Raise(p, tipo, ms, ok, FALSE)
    \/ \E p \in Procs, ok \in BOOLEAN, r \in Reqs :
            Resolve(p, reqs[r].id_alerta, ok)
    \/ \E p \in Procs, ok \in BOOLEAN : Resolve(p, "desconhecido", ok)
    \/ \E p \in Procs : Clear(p)

\* The alert ledger alone: alerts raised and resolved and the in-memory
\* lists cleared, by handlers that read nothing the election loops write.
LedgerSpec == Init /\ [][LedgerNext]_vars

IngestNext ==
    \/ \E p \in Procs : LoopWake(p)
    \/ \E p \in Procs : LoopAcquire(p, TRUE)
    \/ \E p \in Procs, sensor \in Sensores, temperatura \in Temperaturas,
          ms, ms2 \in 0..MaxMs, ok, ok2 \in BOOLEAN :
            Ingest(p, sensor, temperatura, ms, ms2, ok, FALSE, ok2, FALSE)

\* Readings arriving at collectors that are leader or follower, within one
\* second of the clock, up to the persistence of the reading and the alert.
IngestSpec == Init /\ [][IngestNext]_vars

ReplNext ==
    \/ \E p \in Procs, sensor \in Sensores,
          temperatura \in {50, TEMP_MAX + 1},
          ms, ms2 \in 0..MaxMs, rok, rok2 \in BOOLEAN :
            Ingest(p, sensor, temperatura, ms, ms2, TRUE, rok, TRUE, rok2)
    \/ \E p \in Procs, r \in Reqs : Resolve(p, reqs[r].id_alerta, TRUE)
    \/ \E p \in Procs, ok, rok, rok2 \in BOOLEAN : Painel(p, ok, rok, rok2)

\* Readings in and out of range, with their alerts, written through to the
\* replica tables, alerts resolved and the replication status computed,
\* under every replication configuration and with the primary answering.
ReplSpec == ReplInit /\ [][ReplNext]_vars

CrashNext ==
    \/ LeaseNext
    \/ \E p \in Procs : Stop(p)

\* The election loops with collectors that stop.
CrashSpec == Init /\ [][CrashNext]_vars

\* The latest instant of a stop that leaves the clock's horizon room for
\* the lease of the stopped process to expire and be taken over.
StopHorizon == MaxLeaseTime - 2 * LEASE_TTL_SECONDS

\* No running loop is due to wake or waits for the store's answer: the
\* loops and the store act within the quantum of the clock.
Pontual == \A p \in Procs : pc[p] = "stopped" \/ (pc[p] = "sleep" /\ dormir[p] > 0)

LiveNext ==
    \/ Pontual /\ LeaseTick
    \/ \E p \in Procs : LoopWake(p)
    \/ \E p \in Procs : LoopAcquire(p, TRUE)
    \/ \E p \in Procs : LoopRenew(p, TRUE)
    \/ \E p \in Procs : now <= StopHorizon /\ Stop(p)

\* The election loops with the store answering every call and collectors
\* that stop, under the scheduling the runtime gives the loops: the loop of
\* a running process wakes when its sleep is over and gets the answer of
\* each store call it makes, both before the clock moves on.
LiveSpec ==
    /\ Init
    /\ [][LiveNext]_vars
    /\ WF_vars(Pontual /\ LeaseTick)
    /\ \A p \in Procs : WF_vars(LoopWake(p))
    /\ \A p \in Procs : WF_vars(LoopAcquire(p, TRUE))
    /\ \A p \in Procs : WF_vars(LoopRenew(p, TRUE))

WriteNext ==
    \/ Tick
    \/ \E p \in Procs, sensor \in Sensores,
          temperatura \in {50, TEMP_MAX + 1},
          ms, ms2 \in 0..MaxMs, ok, rok, ok2, rok2 \in BOOLEAN :
            Ingest(p, sensor, temperatura, ms, ms2, ok, rok, ok2, rok2)

\* Readings and alerts written to the primary tables and through to the
\* replicas, any of the puts failing, under every replication
\* configuration.
WriteSpec == ReplInit /\ [][WriteNext]_vars

MixNext ==
    \/ \E p \in Procs : LoopWake(p)
    \/ \E p \in Procs : LoopAcquire(p, TRUE)
    \/ \E p \in Procs, tipo \in Tipos, ms \in 0..MaxMs, ok \in BOOLEAN :
            Raise(p, tipo, ms, ok, FALSE)
    \/ \E r \in Reqs, ok \in BOOLEAN : Dispatch(r, ok)
    \/ \E p \in Procs, ok \in BOOLEAN, r \in Reqs :
            Resolve(p, reqs[r].id_alerta, ok)
    \/ \E p \in Procs, ok \in BOOLEAN : Painel(p, ok, FALSE, FALSE)

\* The lease record and the alerts side by side in the one table: a leader
\* elected, alerts raised, marked and resolved, and the panel counting them.
MixSpec == Init /\ [][MixNext]_vars

\* ------------------------------------------------------ the SQS handler
colecoes == <<now, alertas_table, is_lider_atual, pc, agora, dormir, reqs,
              config, tabelas, alertas_emergencia, leituras, alertas_replica,
              res, painel, term, beaten, ult>>

\* send_message: the queue of the priority, when its url is set; message m
\* becomes visible in it.
send_message(m, priority) ==
    LET q == IF priority = "HIGH" THEN "high" ELSE "normal"
        url == IF priority = "HIGH" THEN sqs.high_priority_queue_url
               ELSE sqs.normal_queue_url
    IN /\ url
       /\ \A f \in Filas : sqs.fila[f][m] = "ausente"
       /\ sqs' = [sqs EXCEPT !.fila[q][m] = "visivel"]
       /\ UNCHANGED <<colecoes, sensor_service>>

\* receive_messages: 'if not queue_url: queue_url =
\* self.high_priority_queue_url or self.normal_queue_url'; "" when none.
FilaDeRecepcao(s) ==
    IF s.queue_url # "" THEN s.queue_url
    ELSE IF s.high_priority_queue_url THEN "high"
    ELSE IF s.normal_queue_url THEN "normal"
    ELSE ""

\* start_processing's delete: 'queue_url=queue_url or
\* self.sqs_client.high_priority_queue_url'; "" for None.
FilaDeRemocao(s) ==
    IF s.queue_url # "" THEN s.queue_url
    ELSE IF s.high_priority_queue_url THEN "high"
    ELSE ""

\* receive_messages in start_processing: a batch of the visible messages
\* of the queue, which become invisible for the visibility timeout.
receive_messages(batch) ==
    LET q == FilaDeRecepcao(sqs)
    IN /\ sqs.messages = {}
       /\ sqs.n < MaxCallbacks
       /\ q # ""
       /\ batch # {}
       /\ \A m \in batch : sqs.fila[q][m] = "visivel"
       /\ sqs' = [sqs EXCEPT
                    !.fila[q] = [m \in Msgs |->
                                   IF m \in batch THEN "em_voo" ELSE @[m]],
                    !.messages = batch,
                    !.origem = q]
       /\ UNCHANGED <<colecoes, sensor_service>>

\* delete_message: a QueueUrl of None fails boto3's parameter validation,
\* which is not a ClientError and leaves delete_message as an exception;
\* a ClientError returns False; otherwise the message leaves the queue.
delete_raises(q) == q = ""

delete_message(f, q, m, ok) ==
    IF q # "" /\ ok /\ f[q][m] = "em_voo"
    THEN [f EXCEPT ![q][m] = "ausente"] ELSE f

\* send_to_dlq: a copy in the dead-letter queue when its url is set and
\* the send succeeds.
send_to_dlq(d, m, ok) ==
    IF sqs.dlq_url /\ ok THEN [d EXCEPT ![m] = @ + 1] ELSE d

\* One iteration of 'for message in messages': the body parsed, the
\* callback awaited and the message deleted, copied to the dead-letter
\* queue and deleted, or left alone.  success is "true" or "false" for the
\* callback's value, "raise" when it raises and "json" when the body does
\* not parse.  An exception of the delete in the JSONDecodeError handler
\* leaves the for loop, to the outer handler.
Processar(m, success, dlq_ok, delete_ok) ==
    LET q == FilaDeRemocao(sqs)
    IN /\ m \in sqs.messages
       /\ sqs' = [sqs EXCEPT
             !.fila = IF success \in {"true", "false", "json"}
                      THEN delete_message(@, q, m, delete_ok) ELSE @,
             !.dlq = IF success = "false" THEN send_to_dlq(@, m, dlq_ok)
                     ELSE @,
             !.messages = IF success = "json" /\ delete_raises(q)
                          THEN {} ELSE @ \ {m},
             !.n = @ + 1,
             !.ult = [m |-> m, success |-> success, origem |-> sqs.origem,
                      dlq_ok |-> dlq_ok, delete_ok |-> delete_ok]]
       /\ UNCHANGED <<colecoes, sensor_service>>

\* The visibility timeout of a received message that was not deleted
\* passes: the message is visible again.
VisibilityTimeout(m) ==
    /\ m \notin sqs.messages
    /\ \E q \in Filas :
          /\ sqs.fila[q][m] = "em_voo"
          /\ sqs' = [sqs EXCEPT !.fila[q][m] = "visivel"]
    /\ UNCHANGED <<colecoes, sensor_service>>

SqsNext ==
    \/ \E m \in Msgs, priority \in {"HIGH", "NORMAL"} :
            send_message(m, priority)
    \/ \E batch \in SUBSET Msgs : receive_messages(batch)
    \/ \E m \in Msgs, success \in {"true", "false", "raise", "json"},
          dlq_ok, delete_ok \in BOOLEAN :
            Processar(m, success, dlq_ok, delete_ok)
    \/ \E m \in Msgs : VisibilityTimeout(m)

\* The message handler on its queues, up to MaxCallbacks messages
\* processed.
SqsSpec == SqsInit /\ [][SqsNext]_vars

\* ----------------------------------------------------------- the sensor
\* A variant of the retry test that allows one more attempt.
DeveTentarMaisUma(c) == c <= max_tentativas + 1

\* 'if self.contador_tentativas <= self.max_tentativas'.
DeveTentar(c) == c <= max_tentativas

\* iniciar calls executar_com_tentativas.
Chamar ==
    /\ sensor_service.pc = "idle"
    /\ sensor_service.chamadas < MaxChamadas
    /\ sensor_service' = [sensor_service EXCEPT !.pc = "enviar", !.tentativas = 0,
                                !.chamadas = @ + 1]
    /\ UNCHANGED <<colecoes, sqs>>

\* enviar_temperatura: the MQTT publish when in use, then the HTTP post
\* as default or fallback; a success resets the counter, and
\* executar_com_tentativas counts a failure.
enviar_temperatura(mqtt_ok, http_ok) ==
    LET sucesso == (sensor_service.use_mqtt /\ mqtt_ok) \/ http_ok
    IN /\ sensor_service.pc = "enviar"
       /\ sensor_service' = [sensor_service EXCEPT
             !.pc = IF sucesso THEN "idle" ELSE "contou",
             !.contador_tentativas = IF sucesso THEN 0 ELSE @ + 1,
             !.tentativas = @ + 1,
             !.sucesso = sucesso]
       /\ UNCHANGED <<colecoes, sqs>>

\* The test after the count: another attempt after time.sleep(5), or the
\* counter reset and the call over.
Testar ==
    /\ sensor_service.pc = "contou"
    /\ sensor_service' = IF DeveTentar(sensor_service.contador_tentativas)
                 THEN [sensor_service EXCEPT !.pc = "sleep"]
                 ELSE [sensor_service EXCEPT !.pc = "idle",
                                     !.contador_tentativas = 0]
    /\ UNCHANGED <<colecoes, sqs>>

\* time.sleep(5) returns and executar_com_tentativas calls itself.
Acordar ==
    /\ sensor_service.pc = "sleep"
    /\ sensor_service' = [sensor_service EXCEPT !.pc = "enviar"]
    /\ UNCHANGED <<colecoes, sqs>>

SensorNext ==
    \/ Chamar
    \/ \E mqtt_ok, http_ok \in BOOLEAN : enviar_temperatura(mqtt_ok, http_ok)
    \/ Testar
    \/ Acordar

\* The sensor's calls of executar_com_tentativas, each send answered and
\* each sleep over in the end.
SensorSpec ==
    /\ SensorInit
    /\ [][SensorNext]_vars
    /\ WF_vars(\E mqtt_ok, http_ok \in BOOLEAN :
                  enviar_temperatura(mqtt_ok, http_ok))
    /\ WF_vars(Testar)
    /\ WF_vars(Acordar)

\* The election loops alone, up to MaxLeaseTime.
LeaseSpec == Init /\ [][LeaseNext]_vars

\* The election loops alone under every configured ttl up to MaxTtl.
TtlSpec == TtlInit /\ [][LeaseNext]_vars

\* The same collectors under the scheduling the runtime gives them: every
\* election loop keeps running, every request handler that has started runs
\* to its end, and the clock advances.  Requests arrive as they please.
FairSpec ==
    /\ Spec
    /\ WF_vars(Tick)
    /\ \A p \in Procs : WF_vars(LoopWake(p))
    /\ \A p \in Procs : WF_vars(\E ok \in BOOLEAN : LoopAcquire(p, ok))
    /\ \A p \in Procs : WF_vars(\E ok \in BOOLEAN : LoopRenew(p, ok))
    /\ \A r \in Reqs : WF_vars(\E ok \in BOOLEAN : Dispatch(r, ok))
    /\ \A r \in Reqs : WF_vars(\E configured \in BOOLEAN : Send(r, configured))

\* ================================================================ claims
\* Vocabulary of the claims, stated on the table and not through the
\* operators that model the code.
AcquireDone(p) == pc[p] = "acquire" /\ pc'[p] = "sleep"

RenewDone(p) == pc[p] = "renew" /\ pc'[p] = "sleep"

HasLease == LeaseKey \in DOMAIN alertas_table

Lease == alertas_table[LeaseKey]

\* No lease record, or one whose expiresAt is earlier than the instant at.
LeaseFreeAt(at) == ~HasLease \/ Lease.expiresAt < at

Leaders == {p \in Procs : is_lider_atual[p]}

\* C1: of the acquire calls racing against one absent or expired lease
\* record, exactly one returns true: a call the store answers returns true
\* if and only if no racing call has already won.
C1_ExactlyOneRacerWins ==
    [][\A q \in Procs :
          (/\ AcquireDone(q)
           /\ ~ult'.erro
           /\ (q \in beaten \/ LeaseFreeAt(agora[q])))
          => (is_lider_atual'[q] <=> q \notin beaten)]_vars

\* C2: no alert id has the notification sent for it more than once.
C2_SendAtMostOncePerAlert ==
    \A r1, r2 \in Reqs :
        (r1 # r2 /\ reqs[r1].sent /\ reqs[r2].sent)
        => reqs[r1].id_alerta # reqs[r2].id_alerta

\* C3: of all the mark calls made on one alert id, at most one returns
\* true; every other call, concurrent or later, returns false.
C3_MarkAtMostOncePerAlert ==
    \A r1, r2 \in Reqs :
        (r1 # r2 /\ reqs[r1].marked /\ reqs[r2].marked)
        => reqs[r1].id_alerta # reqs[r2].id_alerta

\* C4 as claimed: at most one process has its leadership flag set.
C4_SingleLeader == Cardinality(Leaders) <= 1

\* C4 as amended: at most one process has its leadership flag set while
\* the expiresAt it last wrote has not passed.
C4_OneLeaderPerLiveTerm ==
    Cardinality({p \in Leaders : term[p] >= now}) <= 1

\* C4's case: a stale leader and the leader that took its lease over, both
\* with the flag set.
C4_StaleAndNewLeader ==
    \E p, q \in Leaders : p # q /\ term[p] < now /\ term[q] >= now

\* C5: every critical alert that was persisted is eventually notified.
C5_CriticalEventuallyNotified ==
    \A r \in Reqs :
        (/\ reqs[r].st # "free"
         /\ reqs[r].id_alerta \in DOMAIN alertas_table
         /\ alertas_table[reqs[r].id_alerta].severidade = "CRITICO")
        ~> (/\ reqs[r].id_alerta \in DOMAIN alertas_table
            /\ alertas_table[reqs[r].id_alerta].notified)

\* C6: an acquire call the store answers returns true exactly when there is
\* no lease record or its expiresAt is earlier than the caller's now, also
\* when the caller is the stored owner; on success the record becomes
\* {caller, now, now + ttl}, otherwise the table is unchanged.
C6_AcquireContract ==
    [][\A p \in Procs :
          AcquireDone(p) =>
            IF ult'.erro
            THEN ~is_lider_atual'[p] /\ alertas_table' = alertas_table
            ELSE /\ is_lider_atual'[p] = LeaseFreeAt(agora[p])
                 /\ is_lider_atual'[p] =>
                      /\ DOMAIN alertas_table' = DOMAIN alertas_table \cup {LeaseKey}
                      /\ \A k \in DOMAIN alertas_table \ {LeaseKey} :
                            alertas_table'[k] = alertas_table[k]
                      /\ alertas_table'[LeaseKey].ownerId = owner_id(p)
                      /\ alertas_table'[LeaseKey].data_criacao = agora[p]
                      /\ alertas_table'[LeaseKey].expiresAt =
                            agora[p] + LEASE_TTL_SECONDS
                 /\ ~is_lider_atual'[p] => alertas_table' = alertas_table]_vars

\* C6's case: the stored owner called acquire and was refused.
C6_OwnerRefused ==
    /\ ult.op = "acquire"
    /\ ~ult.erro
    /\ ~ult.ret
    /\ ult.dono = owner_id(ult.p)

\* C7: a renew call the store answers returns true exactly when the stored
\* ownerId is the caller's, and then only expiresAt changes, to now + ttl;
\* otherwise it returns false and the table is unchanged.
C7_RenewContract ==
    [][\A p \in Procs :
          RenewDone(p) =>
            IF ult'.erro
            THEN ~is_lider_atual'[p] /\ alertas_table' = alertas_table
            ELSE /\ is_lider_atual'[p] = (HasLease /\ Lease.ownerId = owner_id(p))
                 /\ is_lider_atual'[p] =>
                      alertas_table' =
                        [alertas_table EXCEPT ![LeaseKey].expiresAt =
                            agora[p] + LEASE_TTL_SECONDS]
                 /\ ~is_lider_atual'[p] => alertas_table' = alertas_table]_vars

\* C7's case: a leader whose lease another owner took over renews and is
\* refused.
C7_StaleRenewRefused ==
    /\ ult.op = "renew"
    /\ ~ult.erro
    /\ ~ult.ret
    /\ ult.dono # ""
    /\ ult.dono # owner_id(ult.p)

\* C8 as claimed: renew returns false when a different owner holds the
\* unexpired lease and true in every other case.
C8_RenewTrueOtherwise ==
    [][\A p \in Procs :
          (RenewDone(p) /\ ~ult'.erro) =>
            (is_lider_atual'[p] <=>
                ~(/\ HasLease
                  /\ Lease.ownerId # owner_id(p)
                  /\ Lease.expiresAt >= now))]_vars

\* C8 as amended: renew returns false when a different owner is stored,
\* whether or not that lease has expired, and when no record is stored; it
\* returns true when the caller is the stored owner.
C8_RenewAuthority ==
    [][\A p \in Procs :
          (RenewDone(p) /\ ~ult'.erro) =>
            /\ (HasLease /\ Lease.ownerId # owner_id(p)) => ~is_lider_atual'[p]
            /\ ~HasLease => ~is_lider_atual'[p]
            /\ (HasLease /\ Lease.ownerId = owner_id(p)) => is_lider_atual'[p]]_vars

\* C8's case: renew was refused against another owner's expired lease.
C8_RefusedOnExpiredLease ==
    /\ ult.op = "renew"
    /\ ~ult.erro
    /\ ~ult.ret
    /\ dormir[ult.p] = SleepSeconds
    /\ HasLease
    /\ Lease.ownerId # owner_id(ult.p)
    /\ Lease.expiresAt < now

\* C9: an acquire call by a different owner, made after the stored
\* expiresAt has passed, returns true and makes the caller the owner.
C9_ExpiryReclaim ==
    [][\A p \in Procs :
          (/\ AcquireDone(p)
           /\ ~ult'.erro
           /\ HasLease
           /\ Lease.ownerId # owner_id(p)
           /\ Lease.expiresAt < agora[p])
          => /\ is_lider_atual'[p]
             /\ alertas_table'[LeaseKey].ownerId = owner_id(p)]_vars

\* C9's case: an acquire call took the lease over from another owner.
C9_TakenOver ==
    /\ ult.op = "acquire"
    /\ ult.ret
    /\ ult.dono # ""
    /\ ult.dono # owner_id(ult.p)

\* C10: the table holds at most one lease record, and the stored owner
\* changes to a different owner only in a step in which the record it
\* replaces had already expired.
C10_NoLiveTakeover ==
    /\ [](Cardinality({k \in DOMAIN alertas_table :
                          alertas_table[k].tipo_dado = "leader"}) <= 1)
    /\ [][(/\ HasLease
           /\ alertas_table'[LeaseKey].ownerId # Lease.ownerId)
          => Lease.expiresAt < now]_vars

\* C10's case: the record names a new owner while the previous holder,
\* whose term ended before the record was written, still has its flag set.
C10_OwnerChanged ==
    /\ HasLease
    /\ \E p \in Leaders :
          /\ Lease.ownerId # owner_id(p)
          /\ term[p] < Lease.data_criacao

\* C11: every flag starts false; it turns true only in a loop step in
\* which the process's own acquire returned true and turns false only in
\* a loop step in which its own renew returned false; only a process
\* whose flag is set calls renew and only one whose flag is clear calls
\* acquire.
C11_LoopStateMachine ==
    /\ \A p \in Procs : ~is_lider_atual[p]
    /\ [](\A p \in Procs :
            /\ pc[p] = "renew" => is_lider_atual[p]
            /\ pc[p] = "acquire" => ~is_lider_atual[p])
    /\ [][\A p \in Procs :
            /\ (~is_lider_atual[p] /\ is_lider_atual'[p])
               => (AcquireDone(p) /\ ult' = [ult' EXCEPT !.op = "acquire",
                                                        !.p = p, !.ret = TRUE])
            /\ (is_lider_atual[p] /\ ~is_lider_atual'[p])
               => (RenewDone(p) /\ ult' = [ult' EXCEPT !.op = "renew",
                                                      !.p = p, !.ret = FALSE])]_vars

\* C11's case: a leader in its renew call while a follower is in its
\* acquire call.
C11_LeaderRenewsFollowerAcquires ==
    \E p, q \in Procs :
        /\ is_lider_atual[p] /\ pc[p] = "renew"
        /\ ~is_lider_atual[q] /\ pc[q] = "acquire"

\* C12: a renew that fails, by the owner condition or by a store error,
\* clears the flag in that iteration; an acquire that fails, by contention
\* or by a store error, leaves the flag clear; either way the loop goes to
\* sleep for its usual interval, to try again.
C12_FailureDemotes ==
    [][\A p \in Procs :
          /\ (RenewDone(p)
              /\ (ult'.erro \/ ~HasLease \/ Lease.ownerId # owner_id(p)))
             => ~is_lider_atual'[p]
          /\ (AcquireDone(p) /\ (ult'.erro \/ ~LeaseFreeAt(agora[p])))
             => ~is_lider_atual'[p]
          /\ (pc[p] \in {"acquire", "renew"} /\ pc'[p] # pc[p])
             => (pc'[p] = "sleep" /\ dormir'[p] = Max(5, ttl \div 2))]_vars

\* C12's case: a leader whose own lease is stored is demoted because the
\* store did not answer its renew.
C12_DemotedByStoreError ==
    /\ ult.op = "renew"
    /\ ult.erro
    /\ ult.dono = owner_id(ult.p)
    /\ ~is_lider_atual[ult.p]
    /\ pc[ult.p] = "sleep"

\* C13: whatever ttl is configured, a leader's loop sleeps no longer than
\* ttl/2 before its next renew attempt.
C13_RenewWithinHalfTtl ==
    [][\A p \in Procs :
          ((AcquireDone(p) \/ RenewDone(p)) /\ is_lider_atual'[p])
          => 2 * dormir'[p] <= ttl]_vars

\* Vocabulary of the alert claims.
Raised == {r \in Reqs : reqs[r].st # "free"}

\* The alert of request r was written to the table by salvar_alerta.
Persisted(r) ==
    /\ reqs[r].st # "free"
    /\ reqs[r].id_alerta \in DOMAIN alertas_table
    /\ alertas_table[reqs[r].id_alerta].tipo_dado = "alerta"

Alertas == {k \in DOMAIN alertas_table : alertas_table[k].tipo_dado = "alerta"}

\* The dispatch of request r marked its alert and its send then failed.
SendFailed(r) == reqs[r].st = "done" /\ reqs[r].marked /\ ~reqs[r].sent

C15_FollowerDoesNothing ==
    [][\A r \in Reqs :
          (/\ reqs[r].st = "dispatch"
           /\ reqs'[r].st # "dispatch"
           /\ ~is_lider_atual[reqs[r].proc])
          => /\ alertas_table' = alertas_table
             /\ reqs'[r].st = "done"
             /\ ~reqs'[r].marked
             /\ ~reqs'[r].sent]_vars

\* C15's case: a follower's persisted critical alert, dispatched and left
\* unmarked while another process is leader.
C15_FollowerSkipped ==
    \E r \in Raised :
        /\ reqs[r].tipo = "TEMPERATURA_CRITICA"
        /\ reqs[r].st = "done"
        /\ Persisted(r)
        /\ ~alertas_table[reqs[r].id_alerta].notified
        /\ ~is_lider_atual[reqs[r].proc]
        /\ \E q \in Procs : is_lider_atual[q]

\* C16: an alert of any type other than TEMPERATURA_CRITICA is never
\* marked and never sent, and its stored record never becomes notified,
\* whether or not its process is leader.
C16_NonCriticalNoOp ==
    /\ \A r \in Raised :
          reqs[r].tipo # "TEMPERATURA_CRITICA"
          => (reqs[r].st = "done" /\ ~reqs[r].marked /\ ~reqs[r].sent)
    /\ \A k \in Alertas :
          alertas_table[k].tipo_alerta # "TEMPERATURA_CRITICA"
          => ~alertas_table[k].notified

\* C16's case: a leader has raised and persisted a non-critical alert.
C16_LeaderRaisedNonCritical ==
    \E r \in Raised :
        /\ reqs[r].tipo = "SENSOR_OFFLINE"
        /\ Persisted(r)
        /\ is_lider_atual[reqs[r].proc]

\* C17: once a request's mark succeeded and its send failed, the alert
\* stays notified and no other request starts a send for that alert id.
C17_NoSecondSend ==
    [][\A r \in Reqs : SendFailed(r) =>
          /\ reqs[r].id_alerta \in DOMAIN alertas_table'
          /\ alertas_table'[reqs[r].id_alerta].notified
          /\ \A q \in Reqs \ {r} :
                (reqs[q].st # "send" /\ reqs'[q].st = "send")
                => reqs'[q].id_alerta # reqs[r].id_alerta]_vars

\* C18: the stored notified flag of an alert id, once true, is true in
\* every later state.
C18_NotifiedMonotone ==
    [][\A k \in DOMAIN alertas_table :
          alertas_table[k].notified
          => (k \in DOMAIN alertas_table' /\ alertas_table'[k].notified)]_vars

\* C19: the table holds one alert record for each raise that persisted its
\* alert: no raise reuses the id of a stored alert.
C19_OneRecordPerRaise ==
    Cardinality(Alertas) = Cardinality({r \in Reqs : Persisted(r)})

\* C20: every persisted alert carries the severity of its type: CRITICO
\* for TEMPERATURA_CRITICA, ALTO for SENSOR_OFFLINE, MEDIO for any other.
C20_SeverityOfType ==
    \A k \in Alertas :
        alertas_table[k].severidade =
            CASE alertas_table[k].tipo_alerta = "TEMPERATURA_CRITICA" -> "CRITICO"
              [] alertas_table[k].tipo_alerta = "SENSOR_OFFLINE" -> "ALTO"
              [] OTHER -> "MEDIO"

\* C20's case: stored alerts of the types that map to ALTO and to MEDIO.
C20_HighAndMediumStored ==
    \E k, j \in Alertas :
        /\ alertas_table[k].tipo_alerta = "SENSOR_OFFLINE"
        /\ alertas_table[k].severidade = "ALTO"
        /\ alertas_table[j].tipo_alerta = "FALHA_ENERGIA"
        /\ alertas_table[j].severidade = "MEDIO"

\* ------------------------------------------------------ the alert ledger
\* A resolve request has just been handled, and the store answered it.
ResolveDone == res' # res /\ ~res'.erro

\* C21: a resolve request the store answers returns true and sets resolvido
\* and data_resolvido = now when an item with that id exists; for an unknown
\* id it returns false and the table is left as it was.
C21_ResolveContract ==
    [][ResolveDone =>
          IF res'.id \in DOMAIN alertas_table
          THEN /\ res'.ret
               /\ alertas_table'[res'.id].resolvido
               /\ alertas_table'[res'.id].data_resolvido = now
          ELSE ~res'.ret /\ alertas_table' = alertas_table]_vars

\* C22: once a resolve of an id has succeeded (the item carries resolvido),
\* every further resolve of that id the store answers also returns true and
\* leaves resolvido set.
C22_ResolveAgain ==
    [][(/\ ResolveDone
        /\ res'.id \in DOMAIN alertas_table
        /\ alertas_table[res'.id].resolvido)
       => (res'.ret /\ alertas_table'[res'.id].resolvido)]_vars

\* C23: an alert record that carries resolvido is changed by no later step:
\* it stays in the table with every field as it was.
C23_ResolvedIsFrozen ==
    [][\A k \in Alertas :
          alertas_table[k].resolvido =>
            (k \in DOMAIN alertas_table' /\ alertas_table'[k] = alertas_table[k])]_vars

\* A raise has just persisted its alert.
RaisePersisted ==
    \E r \in Reqs :
        /\ reqs[r].st = "free"
        /\ reqs'[r].st # "free"
        /\ reqs'[r].id_alerta \in DOMAIN alertas_table'

\* C24: no created alert ever leaves the listing: every step keeps the
\* alert records that were listed, and a raise that persists its alert adds
\* one record to them.
C24_AlertsNeverRemoved ==
    [][/\ \A k \in Alertas :
             k \in DOMAIN alertas_table' /\ alertas_table'[k].tipo_dado = "alerta"
       /\ RaisePersisted =>
             Cardinality({k \in DOMAIN alertas_table' :
                             alertas_table'[k].tipo_dado = "alerta"})
                = Cardinality(Alertas) + 1]_vars

\* ----------------------------------------------------------- the readings
\* A receber_temperatura call has just been handled.
IngestDone == n_ingest' = n_ingest + 1

\* C25: every ingest the store answers adds one reading to the table, and
\* no step changes or removes a stored reading.
C25_OneReadingPerIngest ==
    [][/\ \A k \in DOMAIN temperaturas_table :
             /\ k \in DOMAIN temperaturas_table'
             /\ temperaturas_table'[k] = temperaturas_table[k]
       /\ (IngestDone /\ ing'.ok) =>
             Cardinality(DOMAIN temperaturas_table')
                = Cardinality(DOMAIN temperaturas_table) + 1]_vars

\* C26: an ingest raises an alert exactly when its temperature is below 2.0
\* or above 8.0.  When it does, the response carries alerta_criado, one call
\* of type TEMPERATURA_CRITICA is made and one item, of that type and of
\* severity CRITICO, is written when the store answers; otherwise there is
\* no alerta_criado and neither the calls nor the alerts table change.
C26_AlertIffOutOfRange ==
    [][IngestDone =>
          IF ing'.temperatura < TEMP_MIN \/ ing'.temperatura > TEMP_MAX
          THEN /\ ing'.alerta_criado
               /\ alertas_emergencia'[ing'.p] = alertas_emergencia[ing'.p] + 1
               /\ \E r \in Reqs :
                     /\ reqs[r].st = "free" /\ reqs'[r].st # "free"
                     /\ reqs'[r].tipo = "TEMPERATURA_CRITICA"
                     /\ \A q \in Reqs \ {r} : reqs'[q] = reqs[q]
                     /\ IF ing'.ok2
                        THEN /\ DOMAIN alertas_table'
                                  = DOMAIN alertas_table \cup {reqs'[r].id_alerta}
                             /\ \A k \in DOMAIN alertas_table \ {reqs'[r].id_alerta} :
                                   alertas_table'[k] = alertas_table[k]
                             /\ alertas_table'[reqs'[r].id_alerta].tipo_dado = "alerta"
                             /\ alertas_table'[reqs'[r].id_alerta].tipo_alerta
                                  = "TEMPERATURA_CRITICA"
                             /\ alertas_table'[reqs'[r].id_alerta].severidade
                                  = "CRITICO"
                        ELSE alertas_table' = alertas_table
          ELSE /\ ~ing'.alerta_criado
               /\ reqs' = reqs
               /\ alertas_table' = alertas_table
               /\ alertas_emergencia' = alertas_emergencia]_vars

\* C26's case: an ingest at the lower limit has raised nothing, after an
\* ingest out of range whose alert is stored.
C26_LimitAfterBreach ==
    /\ ing.p # 0
    /\ ing.temperatura = TEMP_MIN
    /\ ~ing.alerta_criado
    /\ \E r \in Reqs : Persisted(r) /\ reqs[r].tipo = "TEMPERATURA_CRITICA"

\* C27: whether or not the process holds the leadership flag, an ingest
\* the store answers writes the reading under its id, and an out-of-range
\* ingest the store answers writes the alert of its call, each with the
\* fields the inputs determine; the step leaves the flags as they were.
C27_PersistenceNotGated ==
    [][IngestDone =>
          /\ ing'.ok =>
                /\ ing'.id \in DOMAIN temperaturas_table'
                /\ temperaturas_table'[ing'.id].tipo_dado = "temperatura"
                /\ temperaturas_table'[ing'.id].temperatura = ing'.temperatura
                /\ temperaturas_table'[ing'.id].data_criacao = now
          /\ (ing'.alerta_criado /\ ing'.ok2) =>
                /\ reqs'[ing'.slot].proc = ing'.p
                /\ reqs'[ing'.slot].id_alerta \in DOMAIN alertas_table'
                /\ alertas_table'[reqs'[ing'.slot].id_alerta] =
                      [BlankItem EXCEPT !.tipo_dado = "alerta",
                                        !.tipo_alerta = "TEMPERATURA_CRITICA",
                                        !.severidade = "CRITICO",
                                        !.data_criacao = now]
          /\ is_lider_atual' = is_lider_atual]_vars

\* C27's case: while another process is leader, a follower has handled an
\* out-of-range ingest, and its reading and its alert are stored.
C27_FollowerPersisted ==
    /\ ing.p # 0
    /\ ~ing.lider
    /\ Leaders # {}
    /\ ing.p \notin Leaders
    /\ ing.alerta_criado
    /\ ing.id \in DOMAIN temperaturas_table
    /\ reqs[ing.slot].id_alerta \in DOMAIN alertas_table

\* ------------------------------------------------------ stopped leaders
\* Process p has stopped and the lease record is the one it last wrote.
StoppedOwner(p) ==
    /\ pc[p] = "stopped"
    /\ HasLease
    /\ Lease.ownerId = owner_id(p)
    /\ Lease.expiresAt = term[p]

\* C28: a process that stops leaves the table as it is; while the record of
\* a stopped owner stands, the record changes only by an acquire call whose
\* now is later than its expiresAt, every other acquire call returns
\* false, and no flag is raised before that expiresAt has passed.
C28_NoReleaseOnStop ==
    [][/\ \A p \in Procs :
             (pc[p] # "stopped" /\ pc'[p] = "stopped")
             => alertas_table' = alertas_table
       /\ \A p \in Procs :
             StoppedOwner(p) =>
               /\ \A q \in Procs :
                     AcquireDone(q) =>
                       (is_lider_atual'[q]
                          <=> (~ult'.erro /\ Lease.expiresAt < agora[q]))
               /\ alertas_table' # alertas_table =>
                     \E q \in Procs \ {p} :
                         /\ AcquireDone(q)
                         /\ Lease.expiresAt < agora[q]
               /\ \A q \in Procs :
                     (~is_lider_atual[q] /\ is_lider_atual'[q])
                     => Lease.expiresAt < now]_vars

\* C28's case: the lease of a stopped leader has not expired and another
\* process's acquire call, answered by the store, has just been refused.
C28_RefusedWhileStoppedOwns ==
    \E p \in Procs :
        /\ StoppedOwner(p)
        /\ Lease.expiresAt >= now
        /\ ult.op = "acquire"
        /\ ult.p # p
        /\ ~ult.ret /\ ~ult.erro
        /\ ult.dono = owner_id(p)
        /\ pc[ult.p] = "sleep"
        /\ dormir[ult.p] = SleepSeconds

\* ------------------------------------------------------- the replication
\* painel_visual has just computed a replication status.
PainelDone == painel' # painel

\* C29: when the primary and both replicas are read, the status is 'em
\* dia' exactly when the readings table and its replica hold the same
\* number of records and the alerts of the alerts table are as many as the
\* records of its replica; otherwise it is 'atraso'.
C29_InSyncIffCountsMatch ==
    [][(PainelDone /\ painel'.primario /\ painel'.replica) =>
          painel'.status =
            IF /\ Cardinality(DOMAIN temperaturas_table)
                    = Cardinality(DOMAIN temperaturas_replica)
               /\ Cardinality(Alertas) = Cardinality(DOMAIN alertas_replica)
            THEN "em dia" ELSE "atraso"]_vars

\* C30: when replication is not enabled, or the replica of either table
\* does not exist or is not read, the status is 'não habilitada'; computing
\* the status changes no table.
C30_NotEnabledWithoutReplica ==
    [][PainelDone =>
          /\ (~replication_enabled \/ ~painel'.replica)
                => painel'.status = "não habilitada"
          /\ UNCHANGED <<alertas_table, alertas_replica, temperaturas_table,
                         temperaturas_replica>>]_vars

\* ------------------------------------------------------------- liveness
Running == {p \in Procs : pc[p] # "stopped"}

\* C31: while a process keeps running, again and again some running
\* process has its leadership flag set: from the start, with no lease
\* record, and after a leader has stopped and its lease has expired.  A
\* loop leaves its cycle of sleep, acquire and renew only by the process
\* stopping.
C31_EventuallyALeader ==
    /\ \A p \in Procs :
          (p \in Running) ~> (p \notin Running \/ Leaders \cap Running # {})
    /\ [](\A p \in Running : pc[p] \in {"sleep", "acquire", "renew"})

\* C31's case: a leader has stopped, its lease has expired and another
\* process has taken the lease and set its flag.
C31_LeaderAfterStop ==
    \E p, q \in Procs :
        /\ pc[p] = "stopped"
        /\ term[p] # -1
        /\ term[p] < now
        /\ q \in Leaders \cap Running
        /\ Lease.ownerId = owner_id(q)

\* The flag of p is set and the expiresAt p last wrote has not passed.
Timely(p) == is_lider_atual[p] /\ term[p] >= now

\* C32: a leader whose own expiresAt has not passed owns the lease record;
\* a step taken in such a state answers its renew call with true unless
\* the store fails, answers every other process's acquire call with false,
\* and clears its flag only on a renew call the store failed to answer.
C32_TimelyLeaderKeepsLease ==
    /\ [](\A p \in Procs :
            Timely(p) =>
              /\ HasLease
              /\ Lease.ownerId = owner_id(p)
              /\ Lease.expiresAt = term[p])
    /\ [][\A p \in Procs :
            Timely(p) =>
              /\ (RenewDone(p) /\ ~ult'.erro) => is_lider_atual'[p]
              /\ \A q \in Procs \ {p} : AcquireDone(q) => ~is_lider_atual'[q]
              /\ ~is_lider_atual'[p] => (RenewDone(p) /\ ult'.erro)]_vars

\* C32's case: a leader that has renewed in time holds a lease beyond its
\* first term, and another process's acquire call the store answered has
\* just been refused.
C32_RenewedAndRivalRefused ==
    \E p \in Procs :
        /\ Timely(p)
        /\ Lease.data_criacao + ttl < Lease.expiresAt
        /\ ult.op = "acquire" /\ ult.p # p
        /\ ~ult.ret /\ ~ult.erro
        /\ ult.dono = owner_id(p)

\* C33: a renew call that returns true leaves every attribute of the lease
\* record but expiresAt, ownerId and data_criacao among them, and every
\* other item as they were; a renew call that returns false leaves the
\* table as it was, with no lease record if there was none.
C33_RenewFrame ==
    [][\A p \in Procs :
          RenewDone(p) =>
            /\ DOMAIN alertas_table' = DOMAIN alertas_table
            /\ \A k \in DOMAIN alertas_table \ {LeaseKey} :
                  alertas_table'[k] = alertas_table[k]
            /\ HasLease =>
                  /\ alertas_table'[LeaseKey].ownerId = Lease.ownerId
                  /\ alertas_table'[LeaseKey].data_criacao = Lease.data_criacao
                  /\ alertas_table'[LeaseKey].tipo_dado = Lease.tipo_dado
                  /\ [alertas_table'[LeaseKey] EXCEPT !.expiresAt = 0]
                        = [Lease EXCEPT !.expiresAt = 0]
                  /\ ~is_lider_atual'[p] =>
                        alertas_table'[LeaseKey].expiresAt = Lease.expiresAt]_vars

\* C33's case: a renewal by the owner has succeeded on a record acquired
\* at an earlier instant.
C33_RenewedLater ==
    /\ HasLease
    /\ ult.op = "renew"
    /\ ult.ret
    /\ Lease.ownerId = owner_id(ult.p)
    /\ Lease.expiresAt > Lease.data_criacao + ttl

\* ------------------------------------------------------ alert mutations
\* C34: a stored alert stays stored with the fields it was created with;
\* its notified and notified_at change only in a step whose mark call on
\* its id returned true, and its resolvido and data_resolvido only in a
\* step whose resolve call on its id returned true; neither step changes
\* the other pair.
C34_OnlyMarkAndResolveMutate ==
    [][\A k \in Alertas :
          /\ k \in DOMAIN alertas_table'
          /\ alertas_table'[k].tipo_dado = alertas_table[k].tipo_dado
          /\ alertas_table'[k].tipo_alerta = alertas_table[k].tipo_alerta
          /\ alertas_table'[k].severidade = alertas_table[k].severidade
          /\ alertas_table'[k].data_criacao = alertas_table[k].data_criacao
          /\ (\/ alertas_table'[k].notified # alertas_table[k].notified
              \/ alertas_table'[k].notified_at # alertas_table[k].notified_at)
             => /\ \E r \in Reqs :
                      /\ reqs[r].st = "dispatch"
                      /\ reqs[r].id_alerta = k
                      /\ reqs'[r].marked
                /\ alertas_table'[k].resolvido = alertas_table[k].resolvido
                /\ alertas_table'[k].data_resolvido = alertas_table[k].data_resolvido
          /\ (\/ alertas_table'[k].resolvido # alertas_table[k].resolvido
              \/ alertas_table'[k].data_resolvido # alertas_table[k].data_resolvido)
             => /\ reqs' = reqs
                /\ res'.id = k
                /\ res'.ret
                /\ alertas_table'[k].notified = alertas_table[k].notified
                /\ alertas_table'[k].notified_at = alertas_table[k].notified_at]_vars

\* C35: a mark call returns true only on the id of a stored alert and adds
\* no item to the table, and a request whose alert was not persisted
\* neither marks nor reaches the send.
C35_MarkOnlyPersisted ==
    /\ [][\A r \in Reqs :
            (reqs[r].st = "dispatch" /\ reqs'[r].marked) =>
              /\ reqs[r].id_alerta \in Alertas
              /\ DOMAIN alertas_table' = DOMAIN alertas_table]_vars
    /\ [](\A r \in Reqs :
            (reqs[r].marked \/ reqs[r].st = "send" \/ reqs[r].sent)
            => reqs[r].id_alerta \in Alertas)

\* ------------------------------------------------------- write-through
\* C36: every id stored in a replica table is stored in its primary table,
\* the alert ids as alerts, so neither replica holds more records than its
\* primary.
C36_ReplicaWithinPrimary ==
    /\ DOMAIN temperaturas_replica \subseteq DOMAIN temperaturas_table
    /\ DOMAIN alertas_replica \subseteq Alertas
    /\ Cardinality(DOMAIN temperaturas_replica)
          <= Cardinality(DOMAIN temperaturas_table)
    /\ Cardinality(DOMAIN alertas_replica) <= Cardinality(Alertas)

\* C36's case: with replication enabled, a reading and an alert have been
\* replicated, and a reading whose replica write failed is in the primary
\* alone.
C36_ReplicatedAndLagging ==
    /\ replication_enabled
    /\ DOMAIN alertas_replica # {}
    /\ DOMAIN temperaturas_replica # {}
    /\ Cardinality(DOMAIN temperaturas_replica)
          < Cardinality(DOMAIN temperaturas_table)

\* ------------------------------------------------ alerts and the lease
\* C37: what the alert listing and the alert counter read are alert records
\* only, never the lease record; and a step of an alert operation (one that
\* moves neither a loop nor the clock) neither changes, creates nor removes
\* the lease record.
C37_LeaseApartFromAlerts ==
    /\ [](/\ LeaseKey \notin obter_todos_alertas(alertas_table)
          /\ \A k \in obter_todos_alertas(alertas_table) :
                /\ alertas_table[k].tipo_alerta \in Tipos
                /\ alertas_table[k].ownerId = "")
    /\ [](total_alertas(alertas_table, TRUE)
            <= Cardinality(Alertas \ {LeaseKey}))
    /\ [][(pc' = pc /\ now' = now) =>
            /\ HasLease' = HasLease
            /\ HasLease => Lease' = Lease]_vars

\* C37's case: with a lease held, an alert has been stored, marked as
\* notified and resolved.
C37_LeaseBesideHandledAlert ==
    /\ HasLease
    /\ \E k \in Alertas :
          alertas_table[k].notified /\ alertas_table[k].resolvido

\* ------------------------------------------------------- SQS processing
\* The handler has just processed a message.
Processed == sqs'.n = sqs.n + 1

\* C38: with the queue services answering and a dead-letter queue
\* configured, a message whose callback returned true is gone from the
\* queue it was received from; one whose callback returned false has one
\* more copy in the dead-letter queue and is gone from the queue it was
\* received from; one whose callback raised is still in its queue,
\* invisible until the visibility timeout, with no copy made.
C38_DeleteFromReceivedQueue ==
    [][Processed =>
        LET u == sqs'.ult
            antes == sqs.fila[u.origem][u.m]
            depois == sqs'.fila[u.origem][u.m]
        IN /\ (u.success = "true" /\ u.delete_ok) => depois = "ausente"
           /\ (u.success = "false" /\ u.delete_ok /\ u.dlq_ok
                 /\ sqs.dlq_url) =>
                /\ sqs'.dlq[u.m] = sqs.dlq[u.m] + 1
                /\ depois = "ausente"
           /\ u.success = "raise" =>
                /\ depois = antes
                /\ antes = "em_voo"
                /\ sqs'.dlq = sqs.dlq]_vars

\* C38's case: a message of the normal queue, received with no explicit
\* queue_url, was processed with the callback returning true.
C38_ProcessedFromNormal ==
    /\ sqs.ult.success = "true"
    /\ sqs.ult.origem = "normal"
    /\ sqs.ult.delete_ok
    /\ sqs.queue_url = ""

\* -------------------------------------------------- the sensor's retries
\* C39: every call of executar_com_tentativas returns; it makes at most
\* 1 + max_tentativas sends; outside a call, and so after a successful send
\* and after the last failed one, contador_tentativas is 0; and the counter
\* never exceeds max_tentativas + 1.
C39_RetriesTerminate ==
    /\ (sensor_service.pc # "idle") ~> (sensor_service.pc = "idle")
    /\ [](/\ sensor_service.tentativas <= 1 + max_tentativas
          /\ sensor_service.contador_tentativas <= max_tentativas + 1
          /\ sensor_service.pc = "idle" =>
                sensor_service.contador_tentativas = 0
          /\ (sensor_service.pc = "idle" /\ sensor_service.chamadas > 0
               /\ ~sensor_service.sucesso) =>
                sensor_service.tentativas = 1 + max_tentativas)

\* C39's case: every send of a call failed and the call has returned, after
\* 1 + max_tentativas sends.
C39_GaveUp ==
    /\ sensor_service.pc = "idle"
    /\ sensor_service.chamadas > 0
    /\ ~sensor_service.sucesso
    /\ sensor_service.tentativas = 1 + max_tentativas

====
